---- MODULE Spec2Model ----
(***************************************************************************)
(* The City Generator add-on (Blender/The_City_Generator_2.4/__init__.py)  *)
(* as a state machine over the host's scene graph: bpy.data.objects,       *)
(* bpy.data.node_groups, the view layer's layer-collection tree, the mesh  *)
(* attributes of the objects, the scene properties and the host's          *)
(* registration tables.  One action per operator, callback or user step.   *)
(***************************************************************************)
EXTENDS Integers, Sequences, FiniteSets, TLC

VARIABLES
    objects,            \* bpy.data.objects: sequence of object records
    active,             \* context.object / context.active_object: index into objects, 0 = None
    node_groups,        \* names present in bpy.data.node_groups
    layer_collection,   \* context.view_layer.layer_collection: tree, node 1 is the root
    blend,              \* what the bundled City_Generator2.0.blend brings along on append
    appended,           \* number of append_data calls made, per directory
    scene,              \* context.scene: values of the add-on's scene properties
    nops,               \* number of tagging operators and update callbacks run so far
    lastOp,             \* the operator (or callback) that ran last, with its argument
    result,             \* what it returned
    reports,            \* the self.report(...) calls it made, in order
    registered,         \* the classes registered with the host (bpy.utils.register_class)
    scene_properties,   \* the properties defined on bpy.types.Scene, with their update callback
    frame_change_pre,   \* bpy.app.handlers.frame_change_pre
    call,               \* register() / unregister(): the call in progress and its position
    materials           \* bpy.data.materials: the interior shader materials

dataVars == <<objects, active, node_groups, layer_collection, blend, appended,
              materials>>
opVars == <<lastOp, result, reports>>
regVars == <<registered, scene_properties, frame_change_pre, call>>

vars == <<objects, active, node_groups, layer_collection, blend, appended,
          scene, nops, lastOp, result, reports,
          registered, scene_properties, frame_change_pre, call, materials>>

----------------------------------------------------------------------------
(* Bounds of the model *)

MaxObjects == 2     \* objects in bpy.data.objects
MaxLC == 2          \* layer collections in the view layer tree
NumElems == 2       \* polygons, edges and vertices of a mesh, each
MaxValue == 1       \* largest value a scene property is set to
MaxNodes == 4       \* layer collections of a tree find_layer_collection searches
MaxOps == 2         \* tagging operators and update callbacks run in one behaviour

----------------------------------------------------------------------------
(* Names fixed by the source *)

NodeGroupName == "City_Generator_2.0"
CityObjectName == "City_Generator_2.0_Object"
AssetsCollectionName == "City_Gen_2.0_Assets"
DuplicateName == "CityGen Buildings"
None == "None"

\* The modifier sockets the operators write (142, 145, 163), and one more of
\* those the General Settings panel lets the user set (143, "Streets").
SocketKeys == {"Socket_142", "Socket_143", "Socket_145", "Socket_163"}

----------------------------------------------------------------------------
(* Host data *)

NoProps == [k \in {} |-> FALSE]

SetKey(f, k, v) == [x \in (DOMAIN f) \cup {k} |-> IF x = k THEN v ELSE f[x]]

\* A geometry-nodes modifier gets one custom property per input socket of its
\* node group when the group is assigned; the values are the group's defaults.
SocketDefaults == [k \in SocketKeys |-> k \in {"Socket_142", "Socket_143"}]

\* obj.modifiers.new(name=..., type=...)
modifiers_new(name, type) ==
    [name |-> name, type |-> type, node_group |-> None,
     props |-> NoProps, show_viewport |-> TRUE]

\* mod.node_group = group
set_node_group(mod, group) ==
    [mod EXCEPT !.node_group = group,
                !.props = IF group = None THEN @
                          ELSE [k \in (DOMAIN @) \cup SocketKeys |->
                                   IF k \in DOMAIN @ THEN @[k] ELSE SocketDefaults[k]]]

\* bpy.data.node_groups.get(name)
node_groups_get(groups, name) == IF name \in groups THEN name ELSE None

\* name in obj.modifiers
HasModifier(obj, name) == \E j \in 1..Len(obj.modifiers) : obj.modifiers[j].name = name

\* obj.modifiers.get(name): index of the modifier, 0 = None
modifiers_get(obj, name) ==
    IF HasModifier(obj, name)
    THEN CHOOSE j \in 1..Len(obj.modifiers) :
            /\ obj.modifiers[j].name = name
            /\ \A i \in 1..(j-1) : obj.modifiers[i].name # name
    ELSE 0

\* name in bpy.data.objects
InObjects(objs, name) == \E i \in 1..Len(objs) : objs[i].name = name

Domains == {"FACE", "EDGE", "POINT"}

\* Number of elements of a mesh on each attribute domain:
\* len(mesh.polygons), len(mesh.edges), len(mesh.vertices).
DomainSize(domain) ==
    CASE domain = "FACE" -> NumElems
      [] domain = "EDGE" -> NumElems
      [] domain = "POINT" -> NumElems

NoAttributes == [n \in {} |-> 0]

\* obj.data of a fresh object: nothing selected, no custom attribute, the
\* mesh as the user modelled it (not yet replaced by an applied modifier).
NewMesh == [select |-> [d \in Domains |-> {}],
            attributes |-> NoAttributes,
            generated |-> FALSE]

NewObject(name, type, mods) ==
    [name |-> name, type |-> type, mode |-> "OBJECT", modifiers |-> mods, data |-> NewMesh]

\* The object City_Generator_2.0_Object as the bundled file holds it.
CityObject == NewObject(CityObjectName, "MESH", <<>>)

----------------------------------------------------------------------------
(* Utility functions *)

\* The part of the host state the operators pass through their steps.
World == [objects |-> objects, active |-> active, node_groups |-> node_groups,
          lc |-> layer_collection, appended |-> appended,
          reports |-> <<>>, result |-> None, calls |-> <<>>]

RECURSIVE find_layer_collection(_, _, _)
RECURSIVE find_in_children(_, _, _, _)

\* The search looking into the children before comparing the node's own name.
find_layer_collection_children_first(tree, i, collection_name) ==
    LET res == find_in_children(tree, i, 1, collection_name)
    IN IF res # 0 THEN res
       ELSE IF tree[i].name = collection_name THEN i ELSE 0

\* find_layer_collection(layer_collection, collection_name): the node found,
\* 0 = None.  tree[i].parent names the parent of node i; the children of a
\* node are visited in index order.
find_layer_collection(tree, i, collection_name) ==
    IF tree[i].name = collection_name
    THEN i
    ELSE find_in_children(tree, i, 1, collection_name)

\* The loop over layer_collection.children, from candidate child j on.
find_in_children(tree, p, j, collection_name) ==
    IF j > Len(tree) THEN 0
    ELSE IF tree[j].parent = p
         THEN LET res == find_layer_collection(tree, j, collection_name)
              IN IF res # 0 THEN res
                 ELSE find_in_children(tree, p, j + 1, collection_name)
         ELSE find_in_children(tree, p, j + 1, collection_name)

\* append_data(directory, filename): bpy.ops.wm.append of one datablock of the
\* bundled file.  The file's asset collection comes along and is linked under
\* the scene collection when the file links it to the datablock and the view
\* layer does not hold it yet.
append_data(w, directory, filename) ==
    LET w1 == IF directory = "Object"
              THEN [w EXCEPT !.objects = Append(@, CityObject),
                             !.appended.Object = @ + 1]
              ELSE [w EXCEPT !.node_groups = @ \cup {filename},
                             !.appended.NodeTree = @ + 1]
        linked == /\ blend.links_assets
                  /\ find_layer_collection(w.lc, 1, AssetsCollectionName) = 0
                  /\ Len(w.lc) < MaxLC
    IN IF linked
       THEN [w1 EXCEPT !.lc = Append(@, [name |-> AssetsCollectionName,
                                         parent |-> 1, exclude |-> FALSE])]
       ELSE w1

\* self.report({level}, message)
report(w, level, message) == [w EXCEPT !.reports = Append(@, <<level, message>>)]

\* return {result}
return(w, res) == [w EXCEPT !.result = res]

\* context.mode
ContextMode(w) ==
    IF w.active # 0 /\ w.objects[w.active].mode = "EDIT"
    THEN "EDIT_" \o w.objects[w.active].type
    ELSE "OBJECT"

\* bpy.ops.object.mode_set(mode=mode) on the active object
mode_set(w, mode) ==
    [w EXCEPT !.objects[w.active].mode = mode,
              !.calls = Append(@, <<"mode_set", mode>>)]

RemoveAt(s, j) == [i \in 1..(Len(s) - 1) |-> IF i < j THEN s[i] ELSE s[i + 1]]

----------------------------------------------------------------------------
(* CG_OT_Import_Node_Group *)

\* Import of the object without the test of bpy.data.objects.
Import_object_untested(w) ==
    report(append_data(w, "Object", CityObjectName),
           "INFO", "'City_Generator_2.0_Object' object imported successfully.")

\* "Import the City object"
Import_object(w) ==
    IF ~InObjects(w.objects, CityObjectName)
    THEN report(append_data(w, "Object", CityObjectName),
                "INFO", "'City_Generator_2.0_Object' object imported successfully.")
    ELSE report(w, "INFO", "'City_Generator_2.0_Object' object already exists.")

\* "Import node group"
Import_node_group(w) ==
    IF NodeGroupName \notin w.node_groups
    THEN report(append_data(w, "NodeTree", NodeGroupName),
                "INFO", "'City_Generator_2.0' node group imported successfully.")
    ELSE report(w, "INFO", "'City_Generator_2.0' node group already exists.")

\* The visibility step toggling the flag.
Import_visibility_toggling(w) ==
    LET lcx == find_layer_collection(w.lc, 1, AssetsCollectionName)
    IN IF lcx # 0
       THEN [w EXCEPT !.lc[lcx].exclude = ~@]
       ELSE report(w, "WARNING", "Layer collection 'City_Gen_2.0_Assets' not found.")

\* "Manage the collection visibility"
Import_visibility(w) ==
    LET lcx == find_layer_collection(w.lc, 1, AssetsCollectionName)
    IN IF lcx # 0
       THEN [w EXCEPT !.lc[lcx].exclude = TRUE]
       ELSE report(w, "WARNING", "Layer collection 'City_Gen_2.0_Assets' not found.")

\* execute() cancelling when the layer collection is not found.
CG_OT_Import_Node_Group_execute_cancelling(w) ==
    LET w1 == Import_visibility(Import_node_group(Import_object(w)))
    IN return(w1, IF find_layer_collection(w1.lc, 1, AssetsCollectionName) = 0
                  THEN "CANCELLED" ELSE "FINISHED")

CG_OT_Import_Node_Group_execute(w) ==
    return(Import_visibility(Import_node_group(Import_object(w))), "FINISHED")

----------------------------------------------------------------------------
(* CG_OT_Apply_Node_Group *)

\* poll() without the test of the active object's type.
CG_OT_Apply_Node_Group_poll_any_type(w) ==
    /\ ContextMode(w) = "OBJECT"
    /\ w.active # 0

CG_OT_Apply_Node_Group_poll(w) ==
    /\ ContextMode(w) = "OBJECT"
    /\ w.active # 0
    /\ w.objects[w.active].type = "MESH"

\* "Import node group if missing"
Apply_import(w) ==
    IF NodeGroupName \notin w.node_groups
    THEN append_data(w, "NodeTree", NodeGroupName)
    ELSE w

\* The modifier added without the test of obj.modifiers.
Apply_modifier_untested(w) ==
    LET mod == set_node_group(modifiers_new(NodeGroupName, "NODES"),
                              node_groups_get(w.node_groups, NodeGroupName))
    IN [w EXCEPT !.objects[w.active].modifiers = Append(@, mod)]

\* "Apply node group as a modifier"
Apply_modifier(w) ==
    IF ~HasModifier(w.objects[w.active], NodeGroupName)
    THEN LET mod == set_node_group(modifiers_new(NodeGroupName, "NODES"),
                                   node_groups_get(w.node_groups, NodeGroupName))
         IN [w EXCEPT !.objects[w.active].modifiers = Append(@, mod)]
    ELSE report(w, "WARNING",
                "'City_Generator_2.0' modifier already exists on the active object!")

\* "Manage the collection visibility"
Apply_visibility(w) ==
    LET lcx == find_layer_collection(w.lc, 1, AssetsCollectionName)
    IN IF lcx # 0
       THEN report([w EXCEPT !.lc[lcx].exclude = TRUE],
                   "INFO", "Collection 'City_Gen_2.0_Assets' visibility updated.")
       ELSE report(w, "WARNING", "Layer collection 'City_Gen_2.0_Assets' not found.")

\* execute() with the node group imported after the modifier is created.
CG_OT_Apply_Node_Group_execute_import_last(w) ==
    return(Apply_visibility(Apply_import(Apply_modifier(w))), "FINISHED")

CG_OT_Apply_Node_Group_execute(w) ==
    return(Apply_visibility(Apply_modifier(Apply_import(w))), "FINISHED")

----------------------------------------------------------------------------
(* CG_OT_Duplicate_Object *)

\* bpy.ops.object.duplicate(): a copy of the active object (its mesh and its
\* modifiers with it) is added and becomes the active object.
object_duplicate(w) ==
    [w EXCEPT !.objects = Append(@, @[w.active]),
              !.active = Len(w.objects) + 1]

\* The modifier left unapplied.
modifier_apply_skipped(w, name) == w

\* bpy.ops.object.modifier_apply(modifier=name): the named modifier of the
\* active object is removed and its result replaces the object's mesh.
modifier_apply(w, name) ==
    LET j == modifiers_get(w.objects[w.active], name)
    IN IF j = 0 THEN w
       ELSE [w EXCEPT !.objects[w.active].modifiers = RemoveAt(@, j),
                      !.objects[w.active].data.generated = TRUE]

\* The new modifier left with the values it was created with.
copy_settings_skipped(new_mod, geo_mod) == new_mod

\* "Copy all other settings from the original modifier"
copy_settings(new_mod, geo_mod) ==
    [new_mod EXCEPT !.props =
        [k \in (DOMAIN @) \cup (DOMAIN geo_mod.props) |->
            IF k \in DOMAIN geo_mod.props THEN geo_mod.props[k] ELSE @[k]]]

\* The duplicate keeping the name it was given by the host.
Duplicate_rename_skipped(w) == w

\* duplicate = context.object; duplicate.name = "CityGen Buildings".  name is
\* the name the code assigns.
Duplicate_rename(w) == [w EXCEPT !.objects[w.active].name = DuplicateName]

\* Lines 181-220: the branch taken when the object carries the modifier.
\* o is the original object, g the index of geo_mod among its modifiers.
Duplicate_body(w, o, g) ==
    LET w1 == [w EXCEPT !.objects[o].modifiers[g].props = SetKey(@, "Socket_163", TRUE)]
        w2 == object_duplicate(w1)
        d == w2.active
        w3 == mode_set(Duplicate_rename(w2), "OBJECT")
        w4 == modifier_apply(w3, w3.objects[o].modifiers[g].name)
        geo_mod == w4.objects[o].modifiers[g]
        new_mod == copy_settings(
                       set_node_group(modifiers_new(NodeGroupName, "NODES"),
                                      geo_mod.node_group),
                       geo_mod)
        geo_fin == [geo_mod EXCEPT
                        !.props = SetKey(SetKey(@, "Socket_163", FALSE),
                                         "Socket_142", FALSE),
                        !.show_viewport = TRUE]
        new_fin == [new_mod EXCEPT
                        !.props = SetKey(SetKey(@, "Socket_163", FALSE),
                                         "Socket_145", TRUE)]
        w5 == [w4 EXCEPT !.objects[o].modifiers[g] = geo_fin,
                         !.objects[d].modifiers = Append(@, new_fin)]
    IN return(report(w5, "INFO",
                     "Object duplicated and modifier re-added successfully!"),
              "FINISHED")

\* bpy.ops.object.duplicate() is an object-mode operator: called while the
\* object is in edit mode the host raises and execute() ends there, after
\* line 181 has run.
Duplicate_raised(w, o, g) ==
    return([w EXCEPT !.objects[o].modifiers[g].props = SetKey(@, "Socket_163", TRUE)],
           "RAISED")

\* execute() setting Socket_163 on the object's first modifier before it
\* tests for the 'City_Generator_2.0' modifier.
CG_OT_Duplicate_Object_execute_marking_first(w) ==
    LET o == w.active
    IN IF o # 0 /\ Len(w.objects[o].modifiers) > 0
       THEN LET g == modifiers_get(w.objects[o], NodeGroupName)
            IN IF g # 0
               THEN IF w.objects[o].mode = "OBJECT"
                    THEN Duplicate_body(w, o, g)
                    ELSE Duplicate_raised(w, o, g)
               ELSE return(report(
                        [w EXCEPT !.objects[o].modifiers[1].props =
                                      SetKey(@, "Socket_163", TRUE)],
                        "WARNING",
                        "The object does not have a 'City_Generator_2.0' modifier."),
                        "CANCELLED")
       ELSE return(report(w, "WARNING", "No active object or modifiers found."),
                   "CANCELLED")

CG_OT_Duplicate_Object_execute(w) ==
    LET o == w.active
    IN IF o # 0 /\ Len(w.objects[o].modifiers) > 0
       THEN LET g == modifiers_get(w.objects[o], NodeGroupName)
            IN IF g # 0
               THEN IF w.objects[o].mode = "OBJECT"
                    THEN Duplicate_body(w, o, g)
                    ELSE Duplicate_raised(w, o, g)
               ELSE return(report(w, "WARNING",
                        "The object does not have a 'City_Generator_2.0' modifier."),
                        "CANCELLED")
       ELSE return(report(w, "WARNING", "No active object or modifiers found."),
                   "CANCELLED")

----------------------------------------------------------------------------
(* Tagging operators and scene-property update callbacks *)

\* The value the panels' buttons pass to a tagging operator: 1 assigns, 0 removes.
ButtonValues == {0, 1}

\* Values a scene property is set to.
PropValues == 0..MaxValue

\* The eight tagging operators: bl_idname, and the attribute each one's
\* execute() names in mesh.attributes.new(name=..., type=..., domain=...).
MESH_OT_SetLowPolyAttribute ==
    [idname |-> "mesh.set_low_poly_attribute",
     name |-> "low poly", type |-> "INT", domain |-> "FACE"]
MESH_OT_AddParkAttribute ==
    [idname |-> "mesh.add_park_attribute",
     name |-> "assign Park", type |-> "INT", domain |-> "FACE"]
MESH_OT_Add_Intersection_Grid ==
    [idname |-> "mesh.set_intersection_grid",
     name |-> "add intersection grid", type |-> "INT", domain |-> "POINT"]
MESH_OT_Delete_CrossWalk ==
    [idname |-> "mesh.delete_crosswalk",
     name |-> "delete cross walk", type |-> "INT", domain |-> "POINT"]
\* The bus-lane operator writing a face attribute.
MESH_OT_Add_Bus_Lane_on_faces ==
    [idname |-> "mesh.add_bus_lane",
     name |-> "add bus lane", type |-> "INT", domain |-> "FACE"]
MESH_OT_Add_Bus_Lane ==
    [idname |-> "mesh.add_bus_lane",
     name |-> "add bus lane", type |-> "INT", domain |-> "EDGE"]
MESH_OT_delete_Trees_Edge ==
    [idname |-> "mesh.delete_trees_from_edge",
     name |-> "delete Trees from Edge", type |-> "INT", domain |-> "EDGE"]
MESH_OT_SetmodernBuildingAttribute ==
    [idname |-> "mesh.set_modern_building_attribute",
     name |-> "modern building", type |-> "INT", domain |-> "FACE"]
MESH_OT_DeleteBuildingAttribute ==
    [idname |-> "mesh.delete_building_attribute",
     name |-> "Delete Building", type |-> "INT", domain |-> "FACE"]

TaggingOperators ==
    {MESH_OT_SetLowPolyAttribute, MESH_OT_AddParkAttribute,
     MESH_OT_Add_Intersection_Grid, MESH_OT_Delete_CrossWalk,
     MESH_OT_Add_Bus_Lane, MESH_OT_delete_Trees_Edge,
     MESH_OT_SetmodernBuildingAttribute, MESH_OT_DeleteBuildingAttribute}

\* The update callbacks: the scene property each one reads
\* (value = context.scene.<reads>) and the attribute it writes.
\* The height callback creating a float attribute.
update_customheight_float ==
    [fn |-> "update_customheight", reads |-> "height_value",
     name |-> "Custom_Height", type |-> "FLOAT", domain |-> "FACE"]
update_customheight ==
    [fn |-> "update_customheight", reads |-> "height_value",
     name |-> "Custom_Height", type |-> "INT", domain |-> "FACE"]
update_custom_facade_asset_index ==
    [fn |-> "update_custom_facade_asset_index", reads |-> "custom_facade_asset_index",
     name |-> "custom Facade Asset index", type |-> "INT", domain |-> "FACE"]
update_custom_ground_asset_index ==
    [fn |-> "update_custom_ground_asset_index", reads |-> "custom_ground_asset",
     name |-> "custom Ground Floor Asset index", type |-> "INT", domain |-> "FACE"]
update_zshape_amount ==
    [fn |-> "update_zshape_amount", reads |-> "zshape",
     name |-> "Zshape Amount", type |-> "INT", domain |-> "FACE"]
update_zshape_height ==
    [fn |-> "update_zshape_height", reads |-> "zshape_height",
     name |-> "Zshape Height", type |-> "INT", domain |-> "FACE"]
update_zshape_insert ==
    [fn |-> "update_zshape_insert", reads |-> "zshape_insert",
     name |-> "Zshape insert", type |-> "FLOAT", domain |-> "FACE"]

UpdateCallbacks ==
    {update_customheight, update_custom_facade_asset_index,
     update_custom_ground_asset_index, update_zshape_amount,
     update_zshape_height, update_zshape_insert}

\* mesh.attributes.new(name=name, type=type, domain=domain)
attributes_new(mesh, name, type, domain) ==
    [mesh EXCEPT !.attributes =
        [n \in (DOMAIN @) \cup {name} |->
            IF n = name
            THEN [type |-> type, domain |-> domain,
                  data |-> [i \in 1..DomainSize(domain) |-> 0]]
            ELSE @[n]]]

\* The loop body creating the attribute before the test of the select flag.
write_element_creating(mesh, a, value, i) ==
    LET m1 == IF a.name \notin DOMAIN mesh.attributes
              THEN attributes_new(mesh, a.name, a.type, a.domain)
              ELSE mesh
    IN IF i \in mesh.select[a.domain]
       THEN [m1 EXCEPT !.attributes[a.name].data[i] = value]
       ELSE m1

\* The loop body adding the value to the element's entry.
write_element_adding(mesh, a, value, i) ==
    IF i \in mesh.select[a.domain]
    THEN LET m1 == IF a.name \notin DOMAIN mesh.attributes
                   THEN attributes_new(mesh, a.name, a.type, a.domain)
                   ELSE mesh
         IN [m1 EXCEPT !.attributes[a.name].data[i] = @ + value]
    ELSE mesh

\* The loop body without the test of the element's select flag.
write_element_unselected(mesh, a, value, i) ==
    LET m1 == IF a.name \notin DOMAIN mesh.attributes
              THEN attributes_new(mesh, a.name, a.type, a.domain)
              ELSE mesh
    IN [m1 EXCEPT !.attributes[a.name].data[i] = value]

\* The body of the loop over mesh.polygons / mesh.edges / mesh.vertices,
\* for element i.
write_element(mesh, a, value, i) ==
    IF i \in mesh.select[a.domain]
    THEN LET m1 == IF a.name \notin DOMAIN mesh.attributes
                   THEN attributes_new(mesh, a.name, a.type, a.domain)
                   ELSE mesh
         IN [m1 EXCEPT !.attributes[a.name].data[i] = value]
    ELSE mesh

RECURSIVE write_selected(_, _, _, _)
\* The loop, from element i on.
write_selected(mesh, a, value, i) ==
    IF i > DomainSize(a.domain) THEN mesh
    ELSE write_selected(write_element(mesh, a, value, i), a, value, i + 1)

\* The writes of the loop as host calls: one per selected element, each with
\* the mode the object is in while the loop runs.
loop_writes(w, a) ==
    LET mode == w.objects[w.active].mode
        n == Cardinality(w.objects[w.active].data.select[a.domain])
    IN [k \in 1..n |-> <<"write", mode>>]

\* The body without the switch to object mode before the loop.
tag_selected_without_switch(w, a, value) ==
    IF w.active = 0 THEN return(w, "RAISED")
    ELSE IF w.objects[w.active].mode = "EDIT" /\ w.objects[w.active].type = "MESH"
         THEN LET w2 == [w EXCEPT !.objects[w.active].data =
                                       write_selected(@, a, value, 1),
                                  !.calls = @ \o loop_writes(w, a)]
              IN mode_set(w2, "EDIT")
         ELSE w

\* The shared body of the tagging operators' execute() and of the update
\* callbacks: a is the attribute written, value the value written.
\* context.object is None: the test context.object.mode raises.
tag_selected(w, a, value) ==
    IF w.active = 0 THEN return(w, "RAISED")
    ELSE IF w.objects[w.active].mode = "EDIT" /\ w.objects[w.active].type = "MESH"
         THEN LET w1 == mode_set(w, "OBJECT")
                  w2 == [w1 EXCEPT !.objects[w.active].data =
                                        write_selected(@, a, value, 1),
                                   !.calls = @ \o loop_writes(w1, a)]
              IN mode_set(w2, "EDIT")
         ELSE w

\* execute() of a tagging operator invoked with self.value = value
tagging_execute(w, op, value) ==
    LET w1 == tag_selected(w, op, value)
    IN IF w1.result = "RAISED" THEN w1 ELSE return(w1, "FINISHED")

\* The update callback named fn, run after the property it is bound to has
\* taken its new value in sc.
update_callback(w, sc, fn) ==
    LET cb == CHOOSE c \in UpdateCallbacks : c.fn = fn
    IN tag_selected(w, cb, sc[cb.reads])

----------------------------------------------------------------------------
(* Interior materials: update_parallax_settings and its callers *)

\* material_names of update_parallax_settings
material_names ==
    <<"CityGen_Interior_Room_Shader", "CityGen_Interior_Office_Shader",
      "CityGen_Interior_Store_Shader">>

\* The scene property update_parallax_settings copies to node.inputs[k - 1],
\* for k = 1..9.
node_inputs ==
    <<"room_seed", "close_roller_shutter", "close_curtains", "curtain_shutter_seed",
      "randomise_hue", "change_hue", "emission_strength", "light_probability", "seed">>

\* A material of bpy.data.materials: whether bpy.data.materials.get(name) finds
\* it, whether it has a node tree (mat.node_tree is None for a material that
\* does not use nodes), whether the tree has a node named "Group", and the
\* default values of that node's inputs.
Material(present, node_tree, group, value) ==
    [present |-> present, node_tree |-> node_tree, group |-> group,
     inputs |-> [k \in 0..(Len(node_inputs) - 1) |-> value]]

NoMaterials ==
    [m \in {material_names[j] : j \in 1..Len(material_names)} |->
        Material(FALSE, FALSE, FALSE, 0)]

\* The body of the loop of update_parallax_settings for material mat_name:
\* the materials after it, and whether it raised. mat.node_tree.nodes raises
\* AttributeError when mat.node_tree is None.
update_material(mats, sc, mat_name) ==
    IF ~mats[mat_name].present THEN [mats |-> mats, raised |-> FALSE]
    ELSE IF ~mats[mat_name].node_tree THEN [mats |-> mats, raised |-> TRUE]
    ELSE IF ~mats[mat_name].group THEN [mats |-> mats, raised |-> FALSE]
    ELSE [mats |-> [mats EXCEPT ![mat_name].inputs =
                        [k \in DOMAIN @ |-> sc[node_inputs[k + 1]]]],
          raised |-> FALSE]

RECURSIVE parallax_loop(_, _, _)
\* The loop over material_names, from position j on; an exception ends it.
parallax_loop(mats, sc, j) ==
    IF j > Len(material_names) THEN [mats |-> mats, raised |-> FALSE]
    ELSE LET r == update_material(mats, sc, material_names[j])
         IN  IF r.raised THEN r ELSE parallax_loop(r.mats, sc, j + 1)

\* update_parallax_settings(scene)
update_parallax_settings(mats, sc) == parallax_loop(mats, sc, 1)

\* frame_change_handler(scene)
frame_change_handler(mats, sc) == update_parallax_settings(mats, sc)

\* property_update_callback(self, context)
property_update_callback(mats, sc) == update_parallax_settings(mats, sc)

RECURSIVE run_handlers(_, _, _, _)
\* The host runs the handlers of frame_change_pre in order, from position j
\* on; it prints the exception of a handler that raises and goes on. Handlers
\* of other add-ons leave the materials alone.
run_handlers(handlers, mats, sc, j) ==
    IF j > Len(handlers) THEN mats
    ELSE run_handlers(handlers,
                      IF handlers[j] = "frame_change_handler"
                      THEN frame_change_handler(mats, sc).mats ELSE mats,
                      sc, j + 1)

----------------------------------------------------------------------------
(* Registration *)

\* The panel classes: bl_idname and bl_parent_id (None where the class sets none).
CG_PT_Main_Panel ==
    [class |-> "CG_PT_Main_Panel", bl_idname |-> "CG_PT_main_panel",
     bl_parent_id |-> None]
CG_Setting_Panel ==
    [class |-> "CG_Setting_Panel", bl_idname |-> "CG_Setting_panel",
     bl_parent_id |-> None]
CG_General_Setting_Panel ==
    [class |-> "CG_General_Setting_Panel", bl_idname |-> "CG_General_Setting_Panel",
     bl_parent_id |-> "CG_Setting_panel"]
CG_Street_Setting_Panel ==
    [class |-> "CG_Street_Setting_Panel", bl_idname |-> "CG_Street_Setting_Panel",
     bl_parent_id |-> "CG_Setting_panel"]
CG_Park_Setting_Panel ==
    [class |-> "CG_Park_Setting_Panel", bl_idname |-> "CG_Park_Setting_Panel",
     bl_parent_id |-> "CG_Street_Setting_Panel"]
CG_Street_Adv_Setting_Panel ==
    [class |-> "CG_Street_Adv_Setting_Panel", bl_idname |-> "CG_Street_Adv_Setting_Panel",
     bl_parent_id |-> "CG_Street_Setting_Panel"]
CG_Traffic_Sim_Panel ==
    [class |-> "CG_Traffic_Sim_Panel", bl_idname |-> "CG_Traffic_Sim_Panel",
     bl_parent_id |-> "CG_Setting_panel"]
CG_Night_Lighting_Panel ==
    [class |-> "CG_Night_Lighting_Panel", bl_idname |-> "CG_Night_Lighting_Panel",
     bl_parent_id |-> "CG_Setting_panel"]
CG_Building_Panel ==
    [class |-> "CG_Building_Panel", bl_idname |-> "CG_Building_Panel",
     bl_parent_id |-> "CG_Setting_panel"]
CG_Building_Advanced_Panel ==
    [class |-> "CG_Building_Advanced_Panel", bl_idname |-> "CG_Building_Advanced_Panel",
     bl_parent_id |-> "CG_Building_Panel"]
CG_Building_Asset_distribution_Panel ==
    [class |-> "CG_Building_Asset_distribution_Panel", bl_idname |-> "CG_Building_Asset_Distribution_Panel",
     bl_parent_id |-> "CG_Building_Advanced_Panel"]
CG_Building_Floor_Plan_Shape_Panel ==
    [class |-> "CG_Building_Floor_Plan_Shape_Panel", bl_idname |-> "CG_Building_Floor_Plan_Panel",
     bl_parent_id |-> "CG_Building_Advanced_Panel"]
CG_Building_Additional_Assets_Panel ==
    [class |-> "CG_Building_Additional_Assets_Panel", bl_idname |-> "CG_Building_Additional_Assets_Panel",
     bl_parent_id |-> "CG_Building_Advanced_Panel"]
CG_Building_Roof_Panel ==
    [class |-> "CG_Building_Roof_Panel", bl_idname |-> "CG_Building_Roof_Assets_Panel",
     bl_parent_id |-> "CG_Building_Advanced_Panel"]
\* The interior panel naming itself as its parent.
InteriorPanel_self_parented ==
    [class |-> "InteriorPanel", bl_idname |-> "SCENE_PT_parallax_settings",
     bl_parent_id |-> "SCENE_PT_parallax_settings"]
InteriorPanel ==
    [class |-> "InteriorPanel", bl_idname |-> "SCENE_PT_parallax_settings",
     bl_parent_id |-> "CG_Night_Lighting_Panel"]

Panels ==
    {CG_PT_Main_Panel, CG_Setting_Panel, CG_General_Setting_Panel,
     CG_Street_Setting_Panel, CG_Park_Setting_Panel, CG_Street_Adv_Setting_Panel,
     CG_Traffic_Sim_Panel, CG_Night_Lighting_Panel, CG_Building_Panel,
     CG_Building_Advanced_Panel, CG_Building_Asset_distribution_Panel, CG_Building_Floor_Plan_Shape_Panel,
     CG_Building_Additional_Assets_Panel, CG_Building_Roof_Panel, InteriorPanel}

classes ==
    <<"CG_OT_Import_Node_Group", "CG_OT_Apply_Node_Group", "CG_PT_Main_Panel",
      "CG_Setting_Panel", "CG_General_Setting_Panel", "CG_Street_Setting_Panel",
      "CG_Park_Setting_Panel", "CG_Street_Adv_Setting_Panel",
      "CG_OT_Duplicate_Object", "CG_Traffic_Sim_Panel", "CG_Night_Lighting_Panel",
      "CG_Building_Panel", "CG_Building_Advanced_Panel",
      "CG_Building_Asset_distribution_Panel", "CG_Building_Floor_Plan_Shape_Panel",
      "CG_Building_Additional_Assets_Panel", "CG_Building_Roof_Panel",
      "MESH_OT_SetLowPolyAttribute", "MESH_OT_SetmodernBuildingAttribute",
      "MESH_OT_DeleteBuildingAttribute", "MESH_OT_AddParkAttribute",
      "MESH_OT_Add_Intersection_Grid", "MESH_OT_Delete_CrossWalk",
      "MESH_OT_Add_Bus_Lane", "MESH_OT_delete_Trees_Edge", "InteriorPanel">>

\* The list in its own order.
reversed_in_order(s) == s

\* reversed(classes)
reversed(s) == [i \in 1..Len(s) |-> s[Len(s) + 1 - i]]

Define(prop, update) == [stmt |-> "define", arg |-> prop, update |-> update]

\* register(), "Custom attributes": bpy.types.Scene.<prop> = ...Property(update=...)
register_properties ==
    <<Define("height_value", "update_customheight"),
      Define("custom_facade_asset_index", "update_custom_facade_asset_index"),
      Define("custom_ground_asset", "update_custom_ground_asset_index"),
      Define("assign_low_poly", "update_custom_ground_asset_index"),
      Define("zshape", "update_zshape_amount"),
      Define("zshape_height", "update_zshape_height"),
      Define("zshape_insert", "update_zshape_insert")>>

add_custom_properties ==
    <<Define("room_seed", "property_update_callback"),
      Define("close_roller_shutter", "property_update_callback"),
      Define("close_curtains", "property_update_callback"),
      Define("curtain_shutter_seed", "property_update_callback"),
      Define("randomise_hue", "property_update_callback"),
      Define("change_hue", "property_update_callback"),
      Define("emission_strength", "property_update_callback"),
      Define("light_probability", "property_update_callback"),
      Define("seed", "property_update_callback")>>

register_handlers ==
    <<[stmt |-> "append_handler", arg |-> "frame_change_handler", update |-> None]>>

\* add_emission_properties(): no statement of the file calls it.
add_emission_properties ==
    <<Define("global_emission_strength", "update_emission_settings")>>

\* The operator classes of the add-on: class name and bl_idname.
Operators ==
    {[class |-> "CG_OT_Import_Node_Group", bl_idname |-> "cg.import_node_group"],
     [class |-> "CG_OT_Apply_Node_Group", bl_idname |-> "cg.apply_node_group"],
     [class |-> "CG_OT_Duplicate_Object", bl_idname |-> "cg.duplicate_object"],
     [class |-> "MESH_OT_SetLowPolyAttribute", bl_idname |-> MESH_OT_SetLowPolyAttribute.idname],
     [class |-> "MESH_OT_AddParkAttribute", bl_idname |-> MESH_OT_AddParkAttribute.idname],
     [class |-> "MESH_OT_Add_Intersection_Grid", bl_idname |-> MESH_OT_Add_Intersection_Grid.idname],
     [class |-> "MESH_OT_Delete_CrossWalk", bl_idname |-> MESH_OT_Delete_CrossWalk.idname],
     [class |-> "MESH_OT_Add_Bus_Lane", bl_idname |-> MESH_OT_Add_Bus_Lane.idname],
     [class |-> "MESH_OT_delete_Trees_Edge", bl_idname |-> MESH_OT_delete_Trees_Edge.idname],
     [class |-> "MESH_OT_SetmodernBuildingAttribute", bl_idname |-> MESH_OT_SetmodernBuildingAttribute.idname],
     [class |-> "MESH_OT_DeleteBuildingAttribute", bl_idname |-> MESH_OT_DeleteBuildingAttribute.idname]}

\* The operators the host itself provides among those the panels place.
host_operators ==
    {"object.simulation_nodes_cache_calculate_to_frame",
     "object.simulation_nodes_cache_bake", "object.simulation_nodes_cache_delete"}

\* The bl_idnames the draw() methods of the panels pass to layout.operator().
panel_operators ==
    {"cg.import_node_group", "cg.apply_node_group", "cg.duplicate_object",
     "mesh.set_low_poly_attribute", "mesh.add_park_attribute",
     "mesh.delete_trees_from_edge", "mesh.delete_crosswalk", "mesh.add_bus_lane",
     "mesh.set_intersection_grid", "mesh.set_modern_building_attribute",
     "mesh.delete_building_attribute"} \cup host_operators

\* The scene properties the draw() methods of the panels pass to layout.prop().
panel_properties ==
    {"height_value", "custom_facade_asset_index", "custom_ground_asset",
     "zshape", "zshape_height", "zshape_insert", "global_emission_strength",
     "emission_strength", "light_probability", "seed", "randomise_hue",
     "change_hue", "room_seed", "close_roller_shutter", "close_curtains",
     "curtain_shutter_seed"}

\* The statements of register(), in order.
register ==
    [i \in 1..Len(classes) |->
        [stmt |-> "register_class", arg |-> classes[i], update |-> None]]
    \o register_properties \o add_custom_properties \o register_handlers

Del(prop) == [stmt |-> "del", arg |-> prop, update |-> None]

\* unregister() without its last del.
unregister_keeping_seed ==
    [i \in 1..Len(classes) |->
        [stmt |-> "unregister_class", arg |-> reversed(classes)[i], update |-> None]]
    \o <<[stmt |-> "remove_handler", arg |-> "frame_change_handler", update |-> None]>>
    \o <<Del("height_value"), Del("custom_facade_asset_index"),
         Del("custom_ground_asset"), Del("assign_low_poly"), Del("zshape"),
         Del("zshape_height"), Del("zshape_insert"),
         Del("room_seed"), Del("close_roller_shutter"), Del("close_curtains"),
         Del("curtain_shutter_seed"), Del("randomise_hue"), Del("change_hue"),
         Del("emission_strength"), Del("light_probability")>>

\* The statements of unregister(), in order.
unregister ==
    [i \in 1..Len(classes) |->
        [stmt |-> "unregister_class", arg |-> reversed(classes)[i], update |-> None]]
    \o <<[stmt |-> "remove_handler", arg |-> "frame_change_handler", update |-> None]>>
    \o <<Del("height_value"), Del("custom_facade_asset_index"),
         Del("custom_ground_asset"), Del("assign_low_poly"), Del("zshape"),
         Del("zshape_height"), Del("zshape_insert"),
         Del("room_seed"), Del("close_roller_shutter"), Del("close_curtains"),
         Del("curtain_shutter_seed"), Del("randomise_hue"), Del("change_hue"),
         Del("emission_strength"), Del("light_probability"), Del("seed")>>

\* The host's registration tables.
Registry == [registered |-> registered, scene_properties |-> scene_properties,
             frame_change_pre |-> frame_change_pre]

\* list.remove(x): the first occurrence goes.
list_remove(s, x) ==
    LET j == CHOOSE k \in 1..Len(s) : s[k] = x /\ \A i \in 1..(k - 1) : s[i] # x
    IN RemoveAt(s, j)

InList(s, x) == \E k \in 1..Len(s) : s[k] = x

Restrict(f, S) == [x \in S |-> f[x]]

\* Whether the host raises on statement st in registry r: register_class of a
\* registered class, unregister_class of a class that is not registered, del
\* of a property that is not defined.
raises(r, st) ==
    \/ st.stmt = "register_class" /\ st.arg \in r.registered
    \/ st.stmt = "unregister_class" /\ st.arg \notin r.registered
    \/ st.stmt = "del" /\ st.arg \notin DOMAIN r.scene_properties

\* The effect of one statement of register() or unregister().
exec_statement(r, st) ==
    CASE st.stmt = "register_class" ->
            [r EXCEPT !.registered = @ \cup {st.arg}]
      [] st.stmt = "unregister_class" ->
            [r EXCEPT !.registered = @ \ {st.arg}]
      [] st.stmt = "define" ->
            [r EXCEPT !.scene_properties = SetKey(@, st.arg, st.update)]
      [] st.stmt = "del" ->
            [r EXCEPT !.scene_properties = Restrict(@, (DOMAIN @) \ {st.arg})]
      [] st.stmt = "append_handler" ->
            [r EXCEPT !.frame_change_pre = Append(@, st.arg)]
      [] st.stmt = "remove_handler" ->
            IF InList(r.frame_change_pre, st.arg)
            THEN [r EXCEPT !.frame_change_pre = list_remove(@, st.arg)]
            ELSE r

RECURSIVE run(_, _, _)
\* The registry after the statements of body from position i on have run to
\* the end (no statement raising).
run(r, body, i) ==
    IF i > Len(body) THEN r ELSE run(exec_statement(r, body[i]), body, i + 1)

----------------------------------------------------------------------------
(* Initial states *)

AttributePropertyNames ==
    {register_properties[i].arg : i \in 1..Len(register_properties)}

NoRegistry == [registered |-> {}, scene_properties |-> [p \in {} |-> None],
               frame_change_pre |-> <<>>]

\* The add-on enabled: register() has run to its end.
Enabled == run(NoRegistry, register, 1)

Idle == [fn |-> None, i |-> 0, status |-> "idle", prev |-> None, saved |-> NoRegistry]

NoOp == [op |-> "none", value |-> 0, on |-> 0]

\* The layer-collection trees of a view layer: node 1 is the scene collection,
\* every other node hangs below an earlier node; nothing is excluded yet.
LayerCollections ==
    LET Nodes == [name : {AssetsCollectionName, "Collection"},
                  parent : 1..MaxLC, exclude : {FALSE}]
        Root == [name |-> "Scene Collection", parent |-> 0, exclude |-> FALSE]
    IN {t \in UNION {[1..n -> Nodes \cup {Root}] : n \in 1..MaxLC} :
           /\ t[1] = Root
           /\ \A i \in 2..Len(t) : t[i] # Root /\ t[i].parent < i}

\* The scene properties the interior panel shows, defined by add_custom_properties().
InteriorPropertyNames ==
    {add_custom_properties[i].arg : i \in 1..Len(add_custom_properties)}

InitCommon ==
    /\ appended = [Object |-> 0, NodeTree |-> 0]
    /\ scene = [p \in AttributePropertyNames \cup InteriorPropertyNames |-> 0]
    /\ materials = NoMaterials
    /\ nops = 0
    /\ lastOp = NoOp
    /\ result = None
    /\ reports = <<>>

InitEnabled ==
    /\ registered = Enabled.registered
    /\ scene_properties = Enabled.scene_properties
    /\ frame_change_pre = Enabled.frame_change_pre
    /\ call = Idle

\* The modifiers of the user's mesh when the session starts: a subdivision
\* modifier, and possibly the node group applied in an earlier session, with
\* the "Streets" input and the viewport display as the user left them.
InitModifiers ==
    {<<modifiers_new("Subdivision", "SUBSURF")>>}
    \cup {<<modifiers_new("Subdivision", "SUBSURF"),
            [set_node_group(modifiers_new(NodeGroupName, "NODES"), NodeGroupName)
                EXCEPT !.props["Socket_143"] = streets, !.show_viewport = shown]>> :
          streets \in BOOLEAN, shown \in BOOLEAN}

\* A scene with one object, the add-on enabled.
Init ==
    /\ InitCommon
    /\ InitEnabled
    /\ objects \in {<<NewObject("Plane", "MESH", mods)>> : mods \in InitModifiers}
                   \cup {<<NewObject("BezierCurve", "CURVE", <<>>)>>}
    /\ node_groups = IF HasModifier(objects[1], NodeGroupName)
                     THEN {NodeGroupName} ELSE {}
    /\ active = 1
    /\ layer_collection \in LayerCollections
    /\ blend \in [links_assets : BOOLEAN]

----------------------------------------------------------------------------
(* Actions *)

\* The host state after an operator or callback has run (w.calls, the
\* handler's own trace, is not host state).
Commit(w) ==
    /\ objects' = w.objects
    /\ active' = w.active
    /\ node_groups' = w.node_groups
    /\ layer_collection' = w.lc
    /\ appended' = w.appended
    /\ result' = w.result
    /\ reports' = w.reports
    /\ UNCHANGED <<blend, materials>>

Ran(op, value) == lastOp' = [op |-> op, value |-> value, on |-> active]

\* The user presses "Import City Generator".
Import ==
    /\ call.status # "running"
    /\ "CG_OT_Import_Node_Group" \in registered
    /\ InObjects(objects, CityObjectName) \/ Len(objects) < MaxObjects
    /\ Commit(CG_OT_Import_Node_Group_execute(World))
    /\ Ran("cg.import_node_group", 0)
    /\ UNCHANGED <<scene, nops, regVars>>

\* The user presses "Apply Node Group" where the operator is available.
Apply ==
    /\ call.status # "running"
    /\ "CG_OT_Apply_Node_Group" \in registered
    /\ CG_OT_Apply_Node_Group_poll(World)
    /\ Commit(CG_OT_Apply_Node_Group_execute(World))
    /\ Ran("cg.apply_node_group", 0)
    /\ UNCHANGED <<scene, nops, regVars>>

\* "Apply Node Group" where poll() is false: the host does not run execute().
ApplyUnavailable ==
    /\ call.status # "running"
    /\ "CG_OT_Apply_Node_Group" \in registered
    /\ ~CG_OT_Apply_Node_Group_poll(World)
    /\ Commit(return(World, "POLL_FAILED"))
    /\ Ran("cg.apply_node_group", 0)
    /\ UNCHANGED <<scene, nops, regVars>>

\* The user presses "Seperate Buildings for more controll".
Duplicate ==
    /\ call.status # "running"
    /\ "CG_OT_Duplicate_Object" \in registered
    /\ LET w == CG_OT_Duplicate_Object_execute(World)
       IN /\ Len(w.objects) <= MaxObjects
          /\ Commit(w)
    /\ Ran("cg.duplicate_object", 0)
    /\ UNCHANGED <<scene, nops, regVars>>

UserStep ==
    /\ lastOp' = [op |-> "user", value |-> 0, on |-> active]
    /\ result' = None
    /\ reports' = <<>>

\* The user makes another object (or none) the active one.
SetActive(i) ==
    /\ ContextMode(World) = "OBJECT"
    /\ i # active
    /\ active' = i
    /\ UserStep
    /\ UNCHANGED <<objects, node_groups, layer_collection, blend, appended,
                   materials, scene, nops, regVars>>

\* The user toggles edit mode on the active object.
ToggleMode ==
    /\ active # 0
    /\ objects' = [objects EXCEPT ![active].mode =
                        IF @ = "OBJECT" THEN "EDIT" ELSE "OBJECT"]
    /\ UserStep
    /\ UNCHANGED <<active, node_groups, layer_collection, blend, appended,
                   materials, scene, nops, regVars>>

\* The user changes the selection of the active mesh.  The host flushes a
\* selection across the domains: selecting the elements S selects polygon i,
\* edge i and vertex i for each i in S.
Select(S) ==
    /\ active # 0
    /\ objects[active].type = "MESH"
    /\ objects[active].data.select # [d \in Domains |-> S]
    /\ objects' = [objects EXCEPT ![active].data.select = [d \in Domains |-> S]]
    /\ UserStep
    /\ UNCHANGED <<active, node_groups, layer_collection, blend, appended,
                   materials, scene, nops, regVars>>

\* The user presses a button of a tagging operator.
TagOperator(op, value) ==
    /\ call.status # "running"
    /\ nops < MaxOps
    /\ Commit(tagging_execute(World, op, value))
    /\ Ran(op.idname, value)
    /\ nops' = nops + 1
    /\ UNCHANGED <<scene, regVars>>

\* The user sets an attribute-writing scene property: the property takes the
\* value, then its update callback runs.
PropertySet(prop, value) ==
    /\ call.status # "running"
    /\ nops < MaxOps
    /\ prop \in DOMAIN scene_properties
    /\ scene' = [scene EXCEPT ![prop] = value]
    /\ Commit(update_callback(World, scene', scene_properties[prop]))
    /\ Ran(prop, value)
    /\ nops' = nops + 1
    /\ UNCHANGED regVars

Next ==
    \/ Import
    \/ Apply
    \/ ApplyUnavailable
    \/ Duplicate
    \/ \E i \in 0..Len(objects) : SetActive(i)
    \/ ToggleMode

Spec == Init /\ [][Next]_vars

----------------------------------------------------------------------------
(* Tagging a mesh: the operators and callbacks that write mesh attributes *)

InitTag ==
    /\ InitCommon
    /\ InitEnabled
    /\ objects \in {<<NewObject("Plane", "MESH", <<>>)>>,
                    <<NewObject("BezierCurve", "CURVE", <<>>)>>}
    /\ node_groups = {}
    /\ active = 1
    /\ layer_collection = <<[name |-> "Scene Collection", parent |-> 0, exclude |-> FALSE]>>
    /\ blend = [links_assets |-> FALSE]

NextTag ==
    \/ \E op \in TaggingOperators, v \in ButtonValues : TagOperator(op, v)
    \/ \E prop \in AttributePropertyNames, v \in PropValues : PropertySet(prop, v)
    \/ \E S \in SUBSET (1..NumElems) : Select(S)
    \/ ToggleMode
    \/ \E i \in 0..Len(objects) : SetActive(i)

SpecTag == InitTag /\ [][NextTag]_vars

----------------------------------------------------------------------------
(* Enabling and disabling the add-on *)

Body(fn) == IF fn = "register" THEN register ELSE unregister

\* The host (or the script's __main__ block) calls register().
CallRegister ==
    /\ call.status # "running"
    /\ call' = [fn |-> "register", i |-> 1, status |-> "running",
                prev |-> IF call.status = "returned" THEN call.fn ELSE None,
                saved |-> Registry]
    /\ UNCHANGED <<dataVars, scene, nops, opVars,
                   registered, scene_properties, frame_change_pre>>

\* The host calls unregister().  saved keeps the registry as it was before the
\* register() call this one follows, if it follows one that returned.
CallUnregister ==
    /\ call.status # "running"
    /\ call' = [fn |-> "unregister", i |-> 1, status |-> "running",
                prev |-> IF call.status = "returned" THEN call.fn ELSE None,
                saved |-> IF call.status = "returned" /\ call.fn = "register"
                          THEN call.saved ELSE Registry]
    /\ UNCHANGED <<dataVars, scene, nops, opVars,
                   registered, scene_properties, frame_change_pre>>

\* The call in progress runs its next statement.
Step ==
    /\ call.status = "running"
    /\ call.i <= Len(Body(call.fn))
    /\ LET st == Body(call.fn)[call.i]
       IN IF raises(Registry, st)
          THEN /\ call' = [call EXCEPT !.status = "raised"]
               /\ UNCHANGED <<registered, scene_properties, frame_change_pre>>
          ELSE LET r == exec_statement(Registry, st)
               IN /\ registered' = r.registered
                  /\ scene_properties' = r.scene_properties
                  /\ frame_change_pre' = r.frame_change_pre
                  /\ call' = [call EXCEPT !.i = @ + 1]
    /\ UNCHANGED <<dataVars, scene, nops, opVars>>

\* The call in progress has run its last statement and returns.
Return ==
    /\ call.status = "running"
    /\ call.i > Len(Body(call.fn))
    /\ call' = [call EXCEPT !.status = "returned"]
    /\ UNCHANGED <<dataVars, scene, nops, opVars,
                   registered, scene_properties, frame_change_pre>>

\* The host before the add-on is enabled: other add-ons may have defined a
\* scene property and installed a frame-change handler of their own.
InitReg ==
    /\ InitCommon
    /\ objects = <<NewObject("Plane", "MESH", <<>>)>>
    /\ node_groups = {}
    /\ active = 1
    /\ layer_collection = <<[name |-> "Scene Collection", parent |-> 0, exclude |-> FALSE]>>
    /\ blend = [links_assets |-> FALSE]
    /\ registered = {}
    /\ scene_properties \in {NoRegistry.scene_properties,
                             [p \in {"other_property"} |-> None]}
    /\ frame_change_pre \in {<<>>, <<"other_handler">>}
    /\ call = Idle

NextReg ==
    \/ CallRegister
    \/ CallUnregister
    \/ Step
    \/ Return

SpecReg == InitReg /\ [][NextReg]_vars

----------------------------------------------------------------------------
(* The file run as a script *)

\* The text editor runs the file with __name__ == "__main__": the module body
\* defines its classes and functions anew, then the last line calls register().
RunScript ==
    /\ call.status # "running"
    /\ nops < MaxOps
    /\ nops' = nops + 1
    /\ call' = [fn |-> "__main__", i |-> 1, status |-> "running",
                prev |-> IF call.status = "returned" THEN call.fn ELSE None,
                saved |-> Registry]
    /\ UNCHANGED <<dataVars, scene, opVars,
                   registered, scene_properties, frame_change_pre>>

\* register() of the script runs its next statement.  The classes of this run
\* are new objects, none of them registered: where a class with the same
\* bl_idname is registered the host unregisters that one and registers the
\* new one, so no register_class raises.  The handler appended is the
\* frame_change_handler function of this run.
ScriptStep ==
    /\ call.status = "running"
    /\ call.fn = "__main__"
    /\ call.i <= Len(register)
    /\ LET r == exec_statement(Registry, register[call.i])
       IN /\ registered' = r.registered
          /\ scene_properties' = r.scene_properties
          /\ frame_change_pre' = r.frame_change_pre
          /\ call' = [call EXCEPT !.i = @ + 1]
    /\ UNCHANGED <<dataVars, scene, nops, opVars>>

\* register() of the script has run its last statement; the script ends.
ScriptReturn ==
    /\ call.status = "running"
    /\ call.fn = "__main__"
    /\ call.i > Len(register)
    /\ call' = [call EXCEPT !.status = "returned"]
    /\ UNCHANGED <<dataVars, scene, nops, opVars,
                   registered, scene_properties, frame_change_pre>>

\* The host when the script is run: the add-on installed and enabled
\* (register() has run to its end) or not, next to what other add-ons have set up.
InitScript ==
    /\ InitCommon
    /\ objects = <<NewObject("Plane", "MESH", <<>>)>>
    /\ node_groups = {}
    /\ active = 1
    /\ layer_collection = <<[name |-> "Scene Collection", parent |-> 0, exclude |-> FALSE]>>
    /\ blend = [links_assets |-> FALSE]
    /\ \E sp \in {NoRegistry.scene_properties, [p \in {"other_property"} |-> None]},
          fh \in {<<>>, <<"other_handler">>}, enabled \in BOOLEAN :
          LET r0 == [registered |-> {}, scene_properties |-> sp, frame_change_pre |-> fh]
              r  == IF enabled THEN run(r0, register, 1) ELSE r0
          IN /\ registered = r.registered
             /\ scene_properties = r.scene_properties
             /\ frame_change_pre = r.frame_change_pre
    /\ call = Idle

NextScript ==
    \/ RunScript
    \/ ScriptStep
    \/ ScriptReturn

SpecScript == InitScript /\ [][NextScript]_vars

----------------------------------------------------------------------------
(* The interior materials: frame changes and the interior scene properties *)

\* The user sets one of the interior scene properties: the property takes the
\* value, then its update callback runs.
InteriorPropertySet(prop, value) ==
    /\ call.status # "running"
    /\ nops < MaxOps
    /\ prop \in DOMAIN scene_properties
    /\ scene_properties[prop] = "property_update_callback"
    /\ scene' = [scene EXCEPT ![prop] = value]
    /\ materials' = property_update_callback(materials, scene').mats
    /\ lastOp' = [op |-> prop, value |-> value, on |-> active]
    /\ result' = None
    /\ reports' = <<>>
    /\ nops' = nops + 1
    /\ UNCHANGED <<objects, active, node_groups, layer_collection, blend, appended,
                   regVars>>

\* The frame changes: the host runs the handlers of frame_change_pre.
FrameChange ==
    /\ call.status # "running"
    /\ materials' = run_handlers(frame_change_pre, materials, scene, 1)
    /\ lastOp' = [op |-> "frame_change", value |-> 0, on |-> active]
    /\ result' = None
    /\ reports' = <<>>
    /\ UNCHANGED <<objects, active, node_groups, layer_collection, blend, appended,
                   scene, nops, regVars>>

\* The materials of the file: each of the three absent, without a node tree,
\* with a node tree without a "Group" node, or with a "Group" node whose
\* inputs hold the values saved in the file.
InitMaterials ==
    [{material_names[j] : j \in 1..Len(material_names)} ->
        {Material(FALSE, FALSE, FALSE, 0), Material(TRUE, FALSE, FALSE, 0),
         Material(TRUE, TRUE, FALSE, 0), Material(TRUE, TRUE, TRUE, 1)}]

\* The add-on enabled or not, and a file with any of the materials.
InitInterior ==
    /\ appended = [Object |-> 0, NodeTree |-> 0]
    /\ scene = [p \in AttributePropertyNames \cup InteriorPropertyNames |-> 0]
    /\ nops = 0
    /\ lastOp = NoOp
    /\ result = None
    /\ reports = <<>>
    /\ \E r \in {Enabled, NoRegistry} :
          /\ registered = r.registered
          /\ scene_properties = r.scene_properties
          /\ frame_change_pre = r.frame_change_pre
    /\ call = Idle
    /\ objects = <<NewObject("Plane", "MESH", <<>>)>>
    /\ node_groups = {}
    /\ active = 1
    /\ layer_collection = <<[name |-> "Scene Collection", parent |-> 0, exclude |-> FALSE]>>
    /\ blend = [links_assets |-> FALSE]
    /\ materials \in InitMaterials

NextInterior ==
    \/ \E prop \in InteriorPropertyNames, v \in PropValues : InteriorPropertySet(prop, v)
    \/ FrameChange

SpecInterior == InitInterior /\ [][NextInterior]_vars

----------------------------------------------------------------------------
(* find_layer_collection on its own *)

CollectionNames == {AssetsCollectionName, "Collection"}

\* The layer-collection trees of at most MaxNodes nodes, every node (the root
\* too) carrying one of the names.
SearchTrees ==
    LET Nodes == [name : CollectionNames, parent : 0..(MaxNodes - 1), exclude : {FALSE}]
    IN {t \in UNION {[1..n -> Nodes] : n \in 1..MaxNodes} :
           /\ t[1].parent = 0
           /\ \A i \in 2..Len(t) : t[i].parent \in 1..(i - 1)}

InitFind ==
    /\ InitCommon
    /\ InitEnabled
    /\ objects = <<NewObject("Plane", "MESH", <<>>)>>
    /\ node_groups = {}
    /\ active = 1
    /\ layer_collection \in SearchTrees
    /\ blend = [links_assets |-> FALSE]

\* find_layer_collection(root, collection_name) is called on a node of the
\* tree; result takes the node returned (0 = None).
FindLayerCollection(root, collection_name) ==
    /\ result' = find_layer_collection(layer_collection, root, collection_name)
    /\ lastOp' = [op |-> "find_layer_collection", value |-> collection_name, on |-> root]
    /\ reports' = <<>>
    /\ UNCHANGED <<dataVars, scene, nops, regVars>>

NextFind ==
    \E root \in 1..Len(layer_collection), name \in CollectionNames :
        FindLayerCollection(root, name)

SpecFind == InitFind /\ [][NextFind]_vars

----------------------------------------------------------------------------
(* Properties of Import, Apply Node Group and Duplicate Object *)

Reported(level, message) == \E k \in 1..Len(reports) : reports[k] = <<level, message>>

\* Number of modifiers of obj named name
CountModifiers(obj, name) ==
    Cardinality({j \in 1..Len(obj.modifiers) : obj.modifiers[j].name = name})

\* C3: Import appends the object only when no object named
\* 'City_Generator_2.0_Object' exists and the node group only when no node
\* group named 'City_Generator_2.0' exists; otherwise it reports "already
\* exists" and leaves the datablocks as they are.  Hence neither is appended
\* more than once.
ImportAppendsOnce ==
    /\ [](appended.Object <= 1 /\ appended.NodeTree <= 1)
    /\ [][Import =>
            /\ IF InObjects(objects, CityObjectName)
               THEN /\ appended'.Object = appended.Object
                    /\ objects' = objects
                    /\ Reported("INFO",
                           "'City_Generator_2.0_Object' object already exists.")'
               ELSE /\ appended'.Object = appended.Object + 1
                    /\ InObjects(objects', CityObjectName)
            /\ IF NodeGroupName \in node_groups
               THEN /\ appended'.NodeTree = appended.NodeTree
                    /\ node_groups' = node_groups
                    /\ Reported("INFO",
                           "'City_Generator_2.0' node group already exists.")'
               ELSE /\ appended'.NodeTree = appended.NodeTree + 1
                    /\ NodeGroupName \in node_groups'
         ]_vars

\* A second Import: both datablocks were appended by the first and are found.
ImportAgainReached ==
    /\ lastOp.op = "cg.import_node_group"
    /\ appended.Object = 1
    /\ appended.NodeTree = 1
    /\ Reported("INFO", "'City_Generator_2.0_Object' object already exists.")
    /\ Reported("INFO", "'City_Generator_2.0' node group already exists.")

\* C4: after Apply Node Group the active object carries exactly one modifier
\* named 'City_Generator_2.0': an invocation on an object without it adds it,
\* an invocation on an object that has it reports the warning and leaves the
\* object's modifiers unchanged.
ApplyKeepsOneModifier ==
    [][Apply =>
         LET before == objects[active]
             after == objects'[active]
         IN /\ CountModifiers(after, NodeGroupName) = 1
            /\ IF HasModifier(before, NodeGroupName)
               THEN /\ after.modifiers = before.modifiers
                    /\ Reported("WARNING",
                         "'City_Generator_2.0' modifier already exists on the active object!")'
               ELSE /\ Len(after.modifiers) = Len(before.modifiers) + 1
                    /\ SubSeq(after.modifiers, 1, Len(before.modifiers)) = before.modifiers
                    /\ after.modifiers[Len(after.modifiers)].name = NodeGroupName
      ]_vars

\* Apply Node Group invoked again on an object it already gave the modifier.
ApplyAgainReached ==
    /\ lastOp.op = "cg.apply_node_group"
    /\ result = "FINISHED"
    /\ appended.NodeTree = 1
    /\ Len(objects) = 1
    /\ CountModifiers(objects[1], NodeGroupName) = 1
    /\ Reported("WARNING",
           "'City_Generator_2.0' modifier already exists on the active object!")

\* C5: a modifier Apply Node Group adds has the node group
\* 'City_Generator_2.0', never None, also when the node group was absent
\* before the invocation.
AppliedModifierHasNodeGroup ==
    [][(Apply /\ ~HasModifier(objects[active], NodeGroupName)) =>
         LET mods == objects'[active].modifiers
         IN /\ mods[Len(mods)].name = NodeGroupName
            /\ mods[Len(mods)].node_group = NodeGroupName
            /\ NodeGroupName \in node_groups'
      ]_vars

\* Apply Node Group on the only object of a scene without the node group: the
\* operator appended the group and added the modifier.
ApplyImportedGroupReached ==
    /\ lastOp.op = "cg.apply_node_group"
    /\ result = "FINISHED"
    /\ Len(objects) = 1
    /\ appended.NodeTree = 1
    /\ ~Reported("WARNING",
           "'City_Generator_2.0' modifier already exists on the active object!")
    /\ HasModifier(objects[1], NodeGroupName)

\* C7: Import and Apply Node Group return FINISHED on every path; when the
\* layer collection 'City_Gen_2.0_Assets' is not found they report the
\* warning, change no layer collection and keep their earlier effects.
NotFoundWarning == <<"WARNING", "Layer collection 'City_Gen_2.0_Assets' not found.">>

AssetsNotFoundSkipsAndFinishes ==
    [][(Import \/ Apply) =>
         /\ result' = "FINISHED"
         /\ find_layer_collection(layer_collection', 1, AssetsCollectionName) = 0 =>
               /\ reports'[Len(reports')] = NotFoundWarning
               /\ layer_collection' = layer_collection
               /\ NodeGroupName \in node_groups'
               /\ Import => InObjects(objects', CityObjectName)
               /\ Apply => HasModifier(objects'[active], NodeGroupName)
      ]_vars

\* Import has appended the object and the node group and found no layer
\* collection to exclude.
ImportWithoutAssetsReached ==
    /\ lastOp.op = "cg.import_node_group"
    /\ result = "FINISHED"
    /\ reports[Len(reports)] = NotFoundWarning
    /\ Reported("INFO", "'City_Generator_2.0_Object' object imported successfully.")
    /\ InObjects(objects, CityObjectName)

\* C10: a Duplicate Object invocation that succeeds on an object carrying a
\* 'City_Generator_2.0' modifier returns FINISHED, creates exactly one new
\* object, names it 'CityGen Buildings', and leaves it with a modifier named
\* 'City_Generator_2.0' whose node group is the node group of the original's
\* modifier.
DuplicateCreatesBuildings ==
    [][(/\ Duplicate
        /\ active # 0
        /\ HasModifier(objects[active], NodeGroupName)
        /\ result' # "RAISED") =>
         LET orig == objects[active]
             new == objects'[Len(objects')]
         IN /\ result' = "FINISHED"
            /\ Len(objects') = Len(objects) + 1
            /\ \A i \in 1..Len(objects) : objects'[i].name = objects[i].name
            /\ new.name = DuplicateName
            /\ HasModifier(new, NodeGroupName)
            /\ new.modifiers[modifiers_get(new, NodeGroupName)].node_group
                 = orig.modifiers[modifiers_get(orig, NodeGroupName)].node_group
      ]_vars

\* Duplicate Object has finished on an object of the scene.
DuplicateFinishedReached ==
    /\ lastOp.op = "cg.duplicate_object"
    /\ result = "FINISHED"
    /\ objects[Len(objects)].name = DuplicateName
    /\ HasModifier(objects[Len(objects)], NodeGroupName)
    /\ HasModifier(objects[lastOp.on], NodeGroupName)

----------------------------------------------------------------------------
(* Properties of the tagging operators and update callbacks *)

\* The operators and attributes as the panels' documentation lists them:
\* bl_idname, attribute name, attribute domain.
TaggingTable ==
    {<<"mesh.set_low_poly_attribute", "low poly", "FACE">>,
     <<"mesh.set_modern_building_attribute", "modern building", "FACE">>,
     <<"mesh.delete_building_attribute", "Delete Building", "FACE">>,
     <<"mesh.add_park_attribute", "assign Park", "FACE">>,
     <<"mesh.set_intersection_grid", "add intersection grid", "POINT">>,
     <<"mesh.delete_crosswalk", "delete cross walk", "POINT">>,
     <<"mesh.add_bus_lane", "add bus lane", "EDGE">>,
     <<"mesh.delete_trees_from_edge", "delete Trees from Edge", "EDGE">>}

TaggingIdnames == {t[1] : t \in TaggingTable}

\* The object the last operator ran on is a mesh in edit mode.
RanOnEditMesh ==
    /\ lastOp.on # 0
    /\ objects[lastOp.on].type = "MESH"
    /\ objects[lastOp.on].mode = "EDIT"

\* C1: each of the eight tagging operators, invoked with value v on a mesh in
\* edit mode with at least one selected element of its domain, leaves its
\* attribute on the mesh, on that domain, with v at every selected element.
TaggingWritesSelected ==
    /\ {op.idname : op \in TaggingOperators} = TaggingIdnames
    /\ \A t \in TaggingTable :
          (/\ lastOp.op = t[1]
           /\ RanOnEditMesh
           /\ objects[lastOp.on].data.select[t[3]] # {}) =>
              LET mesh == objects[lastOp.on].data
              IN /\ result = "FINISHED"
                 /\ t[2] \in DOMAIN mesh.attributes
                 /\ mesh.attributes[t[2]].domain = t[3]
                 /\ \A i \in mesh.select[t[3]] :
                        mesh.attributes[t[2]].data[i] = lastOp.value

\* Add Bus Lane has written 1 on a selected edge and left an unselected edge.
BusLaneTaggedReached ==
    /\ lastOp.op = "mesh.add_bus_lane"
    /\ lastOp.value = 1
    /\ RanOnEditMesh
    /\ objects[lastOp.on].data.select["EDGE"] = {1}
    /\ "add bus lane" \in DOMAIN objects[lastOp.on].data.attributes
    /\ objects[lastOp.on].data.attributes["add bus lane"].data[1] = 1

\* C2: a tagging operator changes nothing but the selected entries of its own
\* attribute: every other attribute of the mesh, the unselected entries of its
\* own attribute, and every other object stay as they were; an attribute it
\* creates is its own and starts at 0.
TaggingFrame ==
    [][\A op \in TaggingOperators, v \in ButtonValues :
         TagOperator(op, v) =>
            /\ active' = active
            /\ \A o \in 1..Len(objects) :
                  /\ o # active => objects'[o] = objects[o]
                  /\ o = active =>
                       LET before == objects[o].data.attributes
                           after == objects'[o].data.attributes
                           sel == objects[o].data.select[op.domain]
                       IN /\ [objects'[o] EXCEPT !.data.attributes = before] = objects[o]
                          /\ DOMAIN before \subseteq DOMAIN after
                          /\ DOMAIN after \subseteq (DOMAIN before) \cup {op.name}
                          /\ \A n \in DOMAIN before : n # op.name => after[n] = before[n]
                          /\ op.name \in DOMAIN after =>
                               \A i \in (1..DomainSize(op.domain)) \ sel :
                                   after[op.name].data[i] =
                                       IF op.name \in DOMAIN before
                                       THEN before[op.name].data[i] ELSE 0
      ]_vars

\* Add Park has written its attribute on the one selected polygon of a mesh
\* whose 'low poly' attribute holds 1 on both polygons.
SecondAttributeReached ==
    /\ lastOp.op = "mesh.add_park_attribute"
    /\ lastOp.value = 1
    /\ RanOnEditMesh
    /\ objects[lastOp.on].data.select["FACE"] = {1}
    /\ DOMAIN objects[lastOp.on].data.attributes = {"assign Park", "low poly"}
    /\ objects[lastOp.on].data.attributes["assign Park"].data = <<1, 0>>
    /\ objects[lastOp.on].data.attributes["low poly"].data = <<1, 1>>

\* A required thing is missing for the last operator: the object or node
\* group to import, the modifier, the layer collection, the active object, or
\* (for a tagging operator) a mesh in edit mode.
SomethingMissing ==
    \/ lastOp.op \in TaggingIdnames /\ ~RanOnEditMesh
    \/ /\ lastOp.op = "cg.duplicate_object"
       /\ \/ lastOp.on = 0
          \/ ~HasModifier(objects[lastOp.on], NodeGroupName)
    \/ /\ lastOp.op \in {"cg.import_node_group", "cg.apply_node_group"}
       /\ result # "POLL_FAILED"
       /\ find_layer_collection(layer_collection, 1, AssetsCollectionName) = 0

\* C6: every operator that finds a required thing missing emits a warning or
\* info message and then completes or cancels; this includes every tagging
\* operator invoked with no active object or on an object that is not a mesh
\* in edit mode.
MissingIsReported ==
    SomethingMissing =>
        /\ result \in {"FINISHED", "CANCELLED"}
        /\ \E k \in 1..Len(reports) : reports[k][1] \in {"WARNING", "INFO"}

\* C8 as stated: every attribute the add-on creates is an integer attribute on
\* the face, edge or vertex domain.
AttributesAreInt ==
    \A o \in 1..Len(objects) : \A n \in DOMAIN objects[o].data.attributes :
        /\ objects[o].data.attributes[n].type = "INT"
        /\ objects[o].data.attributes[n].domain \in {"FACE", "EDGE", "POINT"}

\* C8: every attribute the add-on creates lies on the face, edge or vertex
\* domain and is an integer attribute, except 'Zshape insert', which
\* update_zshape_insert creates as a float attribute.
AttributesAreIntButZshapeInsert ==
    \A o \in 1..Len(objects) : \A n \in DOMAIN objects[o].data.attributes :
        /\ objects[o].data.attributes[n].type =
               IF n = "Zshape insert" THEN "FLOAT" ELSE "INT"
        /\ objects[o].data.attributes[n].domain \in {"FACE", "EDGE", "POINT"}

\* A mesh holding 'Zshape insert' and an attribute of another callback.
ZshapeInsertReached ==
    \E o \in 1..Len(objects) :
        /\ "Zshape insert" \in DOMAIN objects[o].data.attributes
        /\ "Custom_Height" \in DOMAIN objects[o].data.attributes
        /\ lastOp.op \in {"zshape_insert", "height_value"}

----------------------------------------------------------------------------
(* Properties of register() and unregister() *)

\* The scene properties register() defines.
RegisterDefines == {register[i].arg : i \in {j \in 1..Len(register) : register[j].stmt = "define"}}

\* unregister() has returned and was called right after a register() that returned.
UnregisteredAfterRegister ==
    /\ call.fn = "unregister"
    /\ call.status = "returned"
    /\ call.prev = "register"

\* C9: register() followed by unregister() restores the host's registration
\* state: none of the add-on's classes is registered, every scene property
\* register() defined is deleted and no other, and frame_change_handler is no
\* longer in frame_change_pre.
UnregisterRestores ==
    UnregisteredAfterRegister =>
        /\ Registry = call.saved
        /\ \A i \in 1..Len(classes) : classes[i] \notin registered
        /\ (DOMAIN scene_properties) \cap RegisterDefines = {}
        /\ (DOMAIN call.saved.scene_properties) \ RegisterDefines
               \subseteq DOMAIN scene_properties
        /\ ~InList(frame_change_pre, "frame_change_handler")

\* register() then unregister() on a host that holds another add-on's scene
\* property and frame-change handler.
UnregisterReturnedReached ==
    /\ UnregisteredAfterRegister
    /\ "other_property" \in DOMAIN scene_properties
    /\ frame_change_pre = <<"other_handler">>

----------------------------------------------------------------------------
(* Properties of the panel classes *)

\* The panels whose bl_idname is id.
PanelsNamed(id) == {q \in Panels : q.bl_idname = id}

RECURSIVE AncestorIds(_, _)
\* The bl_idnames met by following bl_parent_id from panel p for at most n steps.
AncestorIds(p, n) ==
    IF n = 0 \/ p.bl_parent_id = None \/ PanelsNamed(p.bl_parent_id) = {}
    THEN {}
    ELSE {p.bl_parent_id}
         \cup UNION {AncestorIds(q, n - 1) : q \in PanelsNamed(p.bl_parent_id)}

\* C11: the settings panels form a tree: every bl_parent_id names the
\* bl_idname of a panel of the classes list, following bl_parent_id from a
\* settings panel reaches 'CG_Setting_panel', and no panel is its own
\* ancestor; a registered settings panel has its parent panel registered.
PanelsFormTree ==
    \A p \in Panels :
        /\ InList(classes, p.class)
        /\ p.bl_idname \notin AncestorIds(p, Cardinality(Panels))
        /\ p.bl_parent_id # None =>
              /\ \E q \in PanelsNamed(p.bl_parent_id) : InList(classes, q.class)
              /\ "CG_Setting_panel" \in AncestorIds(p, Cardinality(Panels))
              /\ p.class \in registered =>
                    \E q \in PanelsNamed(p.bl_parent_id) : q.class \in registered

\* register() has returned with the deepest panels registered.
PanelsRegisteredReached ==
    /\ call.fn = "register"
    /\ call.status = "returned"
    /\ {"InteriorPanel", "CG_Building_Roof_Panel", "CG_Park_Setting_Panel"} \subseteq registered

----------------------------------------------------------------------------
(* Properties of find_layer_collection *)

RECURSIVE PathTo(_, _)
\* The nodes from the top of the tree down to node x.
PathTo(tree, x) ==
    IF tree[x].parent = 0 THEN <<x>> ELSE Append(PathTo(tree, tree[x].parent), x)

\* The nodes of the tree rooted at root, root included.
TreeRootedAt(tree, root) ==
    {x \in 1..Len(tree) : \E k \in 1..Len(PathTo(tree, x)) : PathTo(tree, x)[k] = root}

\* x comes before y in depth-first pre-order: x is an ancestor of y, or where
\* their paths part x's branch is an earlier child than y's.
PreOrderBefore(tree, x, y) ==
    LET px == PathTo(tree, x)
        py == PathTo(tree, y)
    IN \/ Len(px) < Len(py) /\ SubSeq(py, 1, Len(px)) = px
       \/ \E k \in 1..Len(px) :
             /\ k <= Len(py)
             /\ SubSeq(px, 1, k - 1) = SubSeq(py, 1, k - 1)
             /\ px[k] < py[k]

\* C12: find_layer_collection(root, name) returns a layer collection named
\* name if and only if the tree rooted at root (root included) holds one, None
\* otherwise; of several it returns the first in depth-first pre-order.
FindReturnsFirstMatch ==
    lastOp.op = "find_layer_collection" =>
        LET matches == {x \in TreeRootedAt(layer_collection, lastOp.on) :
                           layer_collection[x].name = lastOp.value}
        IN IF matches = {}
           THEN result = 0
           ELSE /\ result \in matches
                /\ \A y \in matches \ {result} :
                       PreOrderBefore(layer_collection, result, y)

\* The search has returned a grandchild of the root that precedes, in
\* pre-order, a matching child of the root with a smaller depth.
DeeperMatchFirstReached ==
    /\ lastOp.op = "find_layer_collection"
    /\ lastOp.on = 1
    /\ Len(layer_collection) = 4
    /\ layer_collection[1].name # lastOp.value
    /\ layer_collection[2].name # lastOp.value
    /\ layer_collection[3].name = lastOp.value /\ layer_collection[3].parent = 2
    /\ layer_collection[4].name = lastOp.value /\ layer_collection[4].parent = 1
    /\ result = 3

----------------------------------------------------------------------------
(* Properties of Apply Node Group's availability *)

\* The context is in OBJECT mode and the active object exists and is a mesh.
ObjectModeMeshActive ==
    /\ active # 0
    /\ objects[active].type = "MESH"
    /\ objects[active].mode = "OBJECT"

\* C13: Apply Node Group runs only when the context is in OBJECT mode and the
\* active object exists and is a mesh; in every other context its poll is
\* false and no modifier is added.
ApplyOnlyOnObjectModeMesh ==
    [][/\ Apply => ObjectModeMeshActive
       /\ ApplyUnavailable =>
            /\ ~ObjectModeMeshActive
            /\ result' = "POLL_FAILED"
            /\ objects' = objects
            /\ node_groups' = node_groups
      ]_vars

\* Apply Node Group was tried on a mesh in edit mode and was not available.
ApplyRefusedInEditReached ==
    /\ lastOp.op = "cg.apply_node_group"
    /\ result = "POLL_FAILED"
    /\ active # 0
    /\ objects[active].type = "MESH"
    /\ objects[active].mode = "EDIT"
    /\ ~HasModifier(objects[active], NodeGroupName)

----------------------------------------------------------------------------
(* Properties of the mode switches of the tagging operators and callbacks *)

\* The active object is a mesh in edit mode.
EditMeshActive ==
    /\ active # 0
    /\ objects[active].type = "MESH"
    /\ objects[active].mode = "EDIT"

\* The host calls of a handler run on a mesh in edit mode: a switch to object
\* mode, then only writes made in object mode, then a switch to edit mode.
SwitchesAroundWrites(calls) ==
    /\ Len(calls) >= 2
    /\ calls[1] = <<"mode_set", "OBJECT">>
    /\ calls[Len(calls)] = <<"mode_set", "EDIT">>
    /\ \A k \in 2..(Len(calls) - 1) : calls[k] = <<"write", "OBJECT">>

\* What C14 says of one handler run that made the host calls `calls`.
ModeKept(calls) ==
    IF EditMeshActive
    THEN SwitchesAroundWrites(calls) /\ objects'[active].mode = "EDIT"
    ELSE active # 0 => calls = <<>> /\ objects' = objects

\* C14: a tagging operator or update callback run on a mesh in edit mode
\* switches to object mode, makes all its attribute writes in object mode and
\* switches back to edit mode; run on an object that is not a mesh in edit
\* mode it changes neither the mode nor an attribute, and the operator returns
\* FINISHED.
WritesInObjectMode ==
    [][/\ \A op \in TaggingOperators, v \in ButtonValues :
            TagOperator(op, v) =>
                /\ ModeKept(tagging_execute(World, op, v).calls)
                /\ active # 0 => result' = "FINISHED"
       /\ \A prop \in AttributePropertyNames, v \in PropValues :
            PropertySet(prop, v) =>
                ModeKept(update_callback(World, scene', scene_properties[prop]).calls)
      ]_vars

\* The zshape callback has written 'Zshape Amount' on a selected face and the
\* mesh is back in edit mode.
CallbackBackInEditReached ==
    /\ lastOp.op = "zshape"
    /\ lastOp.value = 1
    /\ RanOnEditMesh
    /\ 1 \in objects[lastOp.on].data.select["FACE"]
    /\ "Zshape Amount" \in DOMAIN objects[lastOp.on].data.attributes
    /\ objects[lastOp.on].data.attributes["Zshape Amount"].data[1] = 1

----------------------------------------------------------------------------
(* Properties of repeated and empty tagging *)

\* C15: a tagging operator run in edit mode on a mesh with no selected element
\* of its domain creates no attribute and changes no attribute value; an
\* attribute the mesh lacks is created exactly when an element is selected.
NoSelectionNoAttribute ==
    [][\A op \in TaggingOperators, v \in ButtonValues :
         (TagOperator(op, v) /\ EditMeshActive) =>
            LET mesh == objects[active].data
            IN /\ mesh.select[op.domain] = {} => objects' = objects
               /\ op.name \notin DOMAIN mesh.attributes =>
                     (op.name \in DOMAIN objects'[active].data.attributes
                        <=> mesh.select[op.domain] # {})
      ]_vars

\* Delete Building has run in edit mode on a mesh with nothing selected and
\* no attribute.
NothingSelectedReached ==
    /\ lastOp.op = "mesh.delete_building_attribute"
    /\ lastOp.value = 1
    /\ result = "FINISHED"
    /\ RanOnEditMesh
    /\ objects[lastOp.on].data.select["FACE"] = {}
    /\ DOMAIN objects[lastOp.on].data.attributes = {}

\* C16: with the selection unchanged, a tagging operator invoked again with
\* the same value leaves the mesh as the first invocation left it, and an
\* invocation with another value (0 after 1: the 'Remove' button) leaves the
\* attribute on the mesh with that value at every selected element.
TaggingIdempotent ==
    [][\A op \in TaggingOperators, v \in ButtonValues :
         (/\ TagOperator(op, v)
          /\ EditMeshActive
          /\ lastOp.op = op.idname
          /\ result = "FINISHED") =>
            LET mesh == objects[active].data
                after == objects'[active].data
            IN /\ lastOp.value = v => objects' = objects
               /\ after.select = mesh.select
               /\ op.name \in DOMAIN mesh.attributes =>
                    /\ op.name \in DOMAIN after.attributes
                    /\ \A i \in mesh.select[op.domain] :
                           after.attributes[op.name].data[i] = v
      ]_vars

\* Remove Low Poly (value 0) pressed right after a Low Poly button on the
\* same selection: the attribute is there with 0 on the selected polygons.
RemovedAfterAssignReached ==
    /\ lastOp.op = "mesh.set_low_poly_attribute"
    /\ lastOp.value = 0
    /\ nops = 2
    /\ RanOnEditMesh
    /\ objects[lastOp.on].data.select["FACE"] = {1, 2}
    /\ DOMAIN objects[lastOp.on].data.attributes = {"low poly"}
    /\ objects[lastOp.on].data.attributes["low poly"].data = <<0, 0>>

----------------------------------------------------------------------------
(* Properties of the attribute-writing scene properties *)

\* The scene properties and the attribute each one is documented to write.
PropertyTable ==
    {<<"height_value", "Custom_Height">>,
     <<"custom_facade_asset_index", "custom Facade Asset index">>,
     <<"custom_ground_asset", "custom Ground Floor Asset index">>,
     <<"assign_low_poly", "low poly">>,
     <<"zshape", "Zshape Amount">>,
     <<"zshape_height", "Zshape Height">>,
     <<"zshape_insert", "Zshape insert">>}

\* C17: each attribute-writing scene property, changed on a mesh in edit
\* mode, writes its own new value to its own attribute on the selected faces,
\* and touches no other attribute.
PropertyWritesOwnAttribute ==
    \A t \in PropertyTable :
        (/\ lastOp.op = t[1]
         /\ RanOnEditMesh
         /\ objects[lastOp.on].data.select["FACE"] # {}) =>
            LET mesh == objects[lastOp.on].data
            IN /\ t[2] \in DOMAIN mesh.attributes
               /\ \A i \in mesh.select["FACE"] :
                      mesh.attributes[t[2]].data[i] = lastOp.value

----------------------------------------------------------------------------
(* Properties of Duplicate Object's modifiers *)

\* The modifier named 'City_Generator_2.0' of obj (obj carries one).
NodeModifier(obj) == obj.modifiers[modifiers_get(obj, NodeGroupName)]

\* Duplicate Object runs to its end on the active object.
DuplicateSucceeds == Duplicate /\ result' = "FINISHED"

\* C18: after a successful Duplicate Object the original's modifier has
\* Socket_163 = False and Socket_142 = False, the duplicate's new modifier has
\* Socket_163 = False and Socket_145 = True, and every other custom property
\* of the new modifier, Socket_142 among them, has the value the original's
\* modifier held when the operator was invoked.
DuplicateSockets ==
    [][DuplicateSucceeds =>
         LET before == NodeModifier(objects[active]).props
             orig == NodeModifier(objects'[active]).props
             new == NodeModifier(objects'[Len(objects')]).props
         IN /\ orig["Socket_163"] = FALSE
            /\ orig["Socket_142"] = FALSE
            /\ new["Socket_163"] = FALSE
            /\ new["Socket_145"] = TRUE
            /\ DOMAIN new = (DOMAIN before) \cup {"Socket_163", "Socket_145"}
            /\ \A k \in (DOMAIN before) \ {"Socket_163", "Socket_145"} :
                   new[k] = before[k]
      ]_vars

\* The duplicate's modifier holds the original's "Buildings" input as it was
\* before the operator cleared it, and a "Streets" input the user had turned off.
SocketsCopiedReached ==
    /\ lastOp.op = "cg.duplicate_object"
    /\ result = "FINISHED"
    /\ NodeModifier(objects[Len(objects)]).props["Socket_142"] = TRUE
    /\ NodeModifier(objects[Len(objects)]).props["Socket_143"] = FALSE
    /\ NodeModifier(objects[lastOp.on]).props["Socket_142"] = FALSE
    /\ NodeModifier(objects[lastOp.on]).props["Socket_143"] = FALSE

\* C19: Duplicate Object applies the modifier on the duplicate, not on the
\* original: after a successful invocation the original still carries its
\* 'City_Generator_2.0' modifier and its mesh data is as it was, and the
\* duplicate carries exactly one modifier named 'City_Generator_2.0'.
DuplicateAppliesOnDuplicate ==
    [][DuplicateSucceeds =>
         LET orig == objects'[active]
             new == objects'[Len(objects')]
         IN /\ HasModifier(orig, NodeGroupName)
            /\ Len(orig.modifiers) = Len(objects[active].modifiers)
            /\ orig.data = objects[active].data
            /\ CountModifiers(new, NodeGroupName) = 1
            /\ new.data.generated
      ]_vars

\* The duplicate holds the generated geometry, the original does not.
GeneratedOnDuplicateReached ==
    /\ lastOp.op = "cg.duplicate_object"
    /\ result = "FINISHED"
    /\ objects[Len(objects)].data.generated
    /\ ~objects[lastOp.on].data.generated
    /\ CountModifiers(objects[lastOp.on], NodeGroupName) = 1
    /\ CountModifiers(objects[Len(objects)], NodeGroupName) = 1

\* C20: at the end of Duplicate Object the viewport display of the
\* duplicate's modifier is switched off and on again: the duplicate's modifier
\* ends with show_viewport = True and the original's show_viewport is as it was.
DuplicateKeepsOriginalViewport ==
    [][DuplicateSucceeds =>
         /\ NodeModifier(objects'[Len(objects')]).show_viewport = TRUE
         /\ NodeModifier(objects'[active]).show_viewport
              = NodeModifier(objects[active]).show_viewport
      ]_vars

----------------------------------------------------------------------------
(* Properties of Duplicate Object's refusals and of the exclude flag *)

\* C21: Duplicate Object invoked with no active object, on an object without
\* modifiers, or on an object without a modifier named 'City_Generator_2.0'
\* reports a warning, returns CANCELLED, creates no object and leaves every
\* modifier property unchanged.
DuplicateRefusalChangesNothing ==
    [][(/\ Duplicate
        /\ \/ active = 0
           \/ objects[active].modifiers = <<>>
           \/ ~HasModifier(objects[active], NodeGroupName)) =>
         /\ result' = "CANCELLED"
         /\ Len(reports') = 1
         /\ reports'[1][1] = "WARNING"
         /\ objects' = objects
         /\ active' = active
      ]_vars

\* Duplicate Object was refused on an object that has a modifier, but none
\* named 'City_Generator_2.0'.
DuplicateRefusedReached ==
    /\ lastOp.op = "cg.duplicate_object"
    /\ result = "CANCELLED"
    /\ lastOp.on # 0
    /\ objects[lastOp.on].modifiers # <<>>
    /\ reports = <<<<"WARNING", "The object does not have a 'City_Generator_2.0' modifier.">>>>

\* C22: whenever Import or Apply Node Group finds a layer collection named
\* 'City_Gen_2.0_Assets' it sets that collection's exclude flag, and no
\* operation ever clears a flag: an excluded collection stays excluded.
ExcludedStaysExcluded ==
    [][/\ (Import \/ Apply) =>
            LET lcx == find_layer_collection(layer_collection', 1, AssetsCollectionName)
            IN lcx # 0 => layer_collection'[lcx].exclude
       /\ \A i \in 1..Len(layer_collection) :
            layer_collection[i].exclude =>
                /\ i \in 1..Len(layer_collection')
                /\ layer_collection'[i].name = layer_collection[i].name
                /\ layer_collection'[i].exclude
      ]_vars

\* Import has run again with the asset collection already excluded.
ExcludedAgainReached ==
    /\ lastOp.op = "cg.import_node_group"
    /\ Reported("INFO", "'City_Generator_2.0_Object' object already exists.")
    /\ appended.Object = 1
    /\ \E i \in 1..Len(layer_collection) :
          /\ layer_collection[i].name = AssetsCollectionName
          /\ layer_collection[i].exclude

----------------------------------------------------------------------------
(* C23: the interior materials follow the interior scene properties *)

\* Material m exists and has a node named "Group".
HasGroup(m) ==
    materials[m].present /\ materials[m].node_tree /\ materials[m].group

\* The "Group" node of material m has inputs 0..8 equal to the nine interior
\* scene properties, in the order room_seed, close_roller_shutter,
\* close_curtains, curtain_shutter_seed, randomise_hue, change_hue,
\* emission_strength, light_probability, seed.
InputsFollowScene(m) ==
    /\ materials[m].inputs[0] = scene["room_seed"]
    /\ materials[m].inputs[1] = scene["close_roller_shutter"]
    /\ materials[m].inputs[2] = scene["close_curtains"]
    /\ materials[m].inputs[3] = scene["curtain_shutter_seed"]
    /\ materials[m].inputs[4] = scene["randomise_hue"]
    /\ materials[m].inputs[5] = scene["change_hue"]
    /\ materials[m].inputs[6] = scene["emission_strength"]
    /\ materials[m].inputs[7] = scene["light_probability"]
    /\ materials[m].inputs[8] = scene["seed"]

\* A frame change with the add-on registered, or a change of one of the nine
\* interior scene properties, has just happened.
InteriorUpdateDone ==
    \/ lastOp.op = "frame_change" /\ InList(frame_change_pre, "frame_change_handler")
    \/ lastOp.op \in InteriorPropertyNames

\* C23: after every frame change while the add-on is registered, and after
\* every change of one of the nine interior scene properties, each of the three
\* interior materials that exists and has a node named "Group" has that node's
\* inputs 0..8 equal to the nine interior scene properties in order; a material
\* that is absent or has no "Group" node is skipped and the others are still
\* updated.
InteriorMaterialsFollowScene ==
    InteriorUpdateDone =>
        \A m \in DOMAIN materials : HasGroup(m) => InputsFollowScene(m)

\* The same for files in which every interior material that exists has a node
\* tree: then no material makes update_parallax_settings raise.
InteriorMaterialsFollowSceneWithNodeTrees ==
    (\A m \in DOMAIN materials : materials[m].present => materials[m].node_tree)
        => InteriorMaterialsFollowScene

----------------------------------------------------------------------------
(* C24: frame_change_handler is installed at most once *)

\* How many times frame_change_pre contains frame_change_handler.
HandlerCount ==
    Cardinality({k \in 1..Len(frame_change_pre) :
                    frame_change_pre[k] = "frame_change_handler"})

\* C24: after any sequence of register() and unregister() calls,
\* frame_change_pre contains frame_change_handler at most once, and it contains
\* it zero times whenever the last call was unregister().
HandlerAtMostOnce ==
    call.status # "running" =>
        /\ HandlerCount <= 1
        /\ call.fn = "unregister" => HandlerCount = 0

----------------------------------------------------------------------------
(* C25: panels and their parents while register() and unregister() run *)

\* Every panel whose class is in reg and that names a parent has a panel of
\* that bl_idname with its class in reg.
ParentsRegistered(reg) ==
    \A p \in Panels :
        p.class \in reg /\ p.bl_parent_id # None =>
            \E q \in PanelsNamed(p.bl_parent_id) : q.class \in reg

\* The panels that name panel q as their parent.
ChildrenOf(q) == {p \in Panels : p.bl_parent_id = q.bl_idname}

\* C25: register() registers every panel after the panel named by its
\* bl_parent_id, and unregister() unregisters the classes in the reverse order
\* of the classes list, so after every step of either call no registered panel
\* has an unregistered parent.
PanelsFollowParents ==
    [][ /\ \A p \in Panels :
              p.class \notin registered /\ p.class \in registered' =>
                  /\ call.fn = "register"
                  /\ p.bl_parent_id # None =>
                        \E q \in PanelsNamed(p.bl_parent_id) : q.class \in registered
        /\ \A c \in registered \ registered' :
              /\ call.fn = "unregister"
              /\ c = classes[Len(classes) + 1 - call.i]
              /\ \A q \in Panels :
                    q.class = c => \A p \in ChildrenOf(q) : p.class \notin registered
        /\ ParentsRegistered(registered')
      ]_vars

\* unregister() is under way: the interior panel is unregistered and its
\* parent, the Night Lighting panel, is still registered.
UnregisterHalfwayReached ==
    /\ call.fn = "unregister"
    /\ call.status = "running"
    /\ "InteriorPanel" \notin registered
    /\ "CG_Night_Lighting_Panel" \in registered
    /\ "CG_Setting_Panel" \in registered

----------------------------------------------------------------------------
(* C26: what the panels show is there after register() *)

\* C26: after register(), every add-on operator that a panel places as a
\* button is registered and every scene property that a panel displays is
\* defined on the scene type; global_emission_strength, shown by the Night
\* Lighting panel, is defined with update_emission_settings as its update
\* callback.
PanelsShowWhatIsRegistered ==
    call.fn = "register" /\ call.status = "returned" =>
        /\ \A id \in panel_operators \ host_operators :
              \E op \in Operators : op.bl_idname = id /\ op.class \in registered
        /\ \A prop \in panel_properties : prop \in DOMAIN scene_properties
        /\ "global_emission_strength" \in DOMAIN scene_properties
        /\ scene_properties["global_emission_strength"] = "update_emission_settings"

\* The same without global_emission_strength.
PanelsShowWhatIsRegisteredButEmission ==
    call.fn = "register" /\ call.status = "returned" =>
        /\ \A id \in panel_operators \ host_operators :
              \E op \in Operators : op.bl_idname = id /\ op.class \in registered
        /\ \A prop \in panel_properties \ {"global_emission_strength"} :
              prop \in DOMAIN scene_properties

====
